---------------------------- MODULE Spec2Model ----------------------------
(***************************************************************************)
(* Model of mymkfs.c, the HUST_fs formatter: main() opens the device, runs *)
(* init_disk (geometry + bitmaps) and then the five writers, and exits.    *)
(* One action per function main calls; the device is a log of write(2)     *)
(* calls with their offsets and return values.                             *)
(***************************************************************************)
EXTENDS Integers, Sequences, FiniteSets

(* ------------------------------ bounds -------------------------------- *)
\* device sizes of 0..MaxBlocks whole blocks are explored (plus ExtraBlockCounts)
MaxBlocks == 16
\* at most this many write(2) calls of one run return short or with an error
MaxFaults == 1

(* ------------------------- program constants -------------------------- *)
HUST_BLOCKSIZE == 4096
RESERVE_BLOCKS == 2
HUST_INODE_SIZE == 264
\* constants.h is not among the sources; the filename length only fixes the
\* spacing of the three directory records
HUST_FILENAME_MAX_LEN == 256
\* sizeof(struct HUST_fs_super_block): ten uint64_t fields and char padding[4016]
SB_SIZE == 10 * 8 + 4016
\* sizeof(struct HUST_dir_record): the filename and a uint64_t inode_no
DIR_RECORD_SIZE == HUST_FILENAME_MAX_LEN + 8
\* sizeof(char)*8, the bits of one bitmap byte
BITS_PER_BYTE == 8

(* ------------------------ uint64_t arithmetic ------------------------- *)
\* A uint64_t is four 16-bit limbs, least significant first.
Limb == 65536

U64(n) == <<n % Limb, (n \div Limb) % Limb, 0, 0>>

\* x - y modulo 2^64, limb by limb with borrow
Sub64(x, y) ==
    LET d1 == x[1] - y[1]
        b1 == IF d1 < 0 THEN 1 ELSE 0
        d2 == x[2] - y[2] - b1
        b2 == IF d2 < 0 THEN 1 ELSE 0
        d3 == x[3] - y[3] - b2
        b3 == IF d3 < 0 THEN 1 ELSE 0
        d4 == x[4] - y[4] - b3
        b4 == IF d4 < 0 THEN 1 ELSE 0
    IN  <<d1 + b1 * Limb, d2 + b2 * Limb, d3 + b3 * Limb, d4 + b4 * Limb>>

\* conversion of a signed off_t / int to uint64_t (two's complement)
ToU64(v) == IF v >= 0 THEN U64(v) ELSE Sub64(U64(0), U64(-v))

\* the value of a uint64_t that fits in 31 bits
IsSmall(x) == x[3] = 0 /\ x[4] = 0 /\ x[2] < Limb \div 2
Val(x) == x[1] + x[2] * Limb

(* ------------------------------ inputs -------------------------------- *)
\* 100 blocks is the 400KB disk of the header comment; 32768 = 8*4096 blocks
\* fill one bitmap block exactly, 32769 need a second one
ExtraBlockCounts == {100, 8 * HUST_BLOCKSIZE, 8 * HUST_BLOCKSIZE + 1}
BlockCounts == (0..MaxBlocks) \cup ExtraBlockCounts
\* a device is a whole number of blocks, or has a partial trailing block
Remainders == {0, HUST_BLOCKSIZE - 1}
DeviceSizes == {b * HUST_BLOCKSIZE + r : b \in BlockCounts, r \in Remainders}
ArgCounts == {1, 2, 3}

VARIABLES
    pc,               \* position of main
    argc,             \* main's argc
    device,           \* st_size of the file at argv[1]
    fd,               \* the descriptor open() returned, -1 before and on failure
    off,              \* the file offset of fd
    writes,           \* the write(2) calls made on fd, in order
    rets,             \* the return values of the stages main has called, in order
    faults,           \* number of failed write(2) calls so far
    exit_status,      \* the status the process terminated with (-1 while running)
    disk_size,        \* static uint64_t disk_size
    bmap_size,        \* static uint64_t bmap_size
    imap_size,        \* static uint64_t imap_size
    inode_table_size, \* static uint64_t inode_table_size
    bmap,             \* static uint8_t* bmap and the buffer it points to
    imap,             \* static uint8_t* imap and the buffer it points to
    super_block       \* static struct HUST_fs_super_block super_block

vars == <<pc, argc, device, fd, off, writes, rets, faults, exit_status,
          disk_size, bmap_size, imap_size, inode_table_size, bmap, imap,
          super_block>>

globals == <<disk_size, bmap_size, imap_size, inode_table_size, bmap, imap,
             super_block>>

\* A static pointer starts NULL. A buffer is its byte size, the set of bit
\* indices that are 1, and the byte offsets accessed outside its size.
NullBuf == [null |-> TRUE, size |-> 0, bits |-> {}, oob |-> {}]

\* statics are zero-initialised (magic is left out: MAGIC_NUM is opaque)
ZeroSuperBlock ==
    [version |-> 0, block_size |-> 0, inodes_count |-> 0, free_blocks |-> U64(0),
     blocks_count |-> 0, bmap_block |-> 0, imap_block |-> 0,
     inode_table_block |-> 0, data_block_number |-> 0]

Init ==
    /\ pc = "main"
    /\ argc \in ArgCounts
    /\ device \in DeviceSizes
    /\ fd = -1
    /\ off = 0
    /\ writes = <<>>
    /\ rets = <<>>
    /\ faults = 0
    /\ exit_status = -1
    /\ disk_size = U64(0)
    /\ bmap_size = 0
    /\ imap_size = 0
    /\ inode_table_size = 0
    /\ bmap = NullBuf
    /\ imap = NullBuf
    /\ super_block = ZeroSuperBlock

(* ------------------------------ helpers ------------------------------- *)
\* the exit status a parent sees for main's return value: its low 8 bits
ExitStatus(r) == r % 256
\* a process killed by SIGSEGV, as a shell reports it
SIGSEGV_STATUS == 128 + 11

get_file_size(stat_ok) == IF stat_ok THEN device ELSE -1

\* malloc(n) followed by memset(p, 0, n); malloc(0) returns NULL or a
\* zero-sized object, as the C library chooses. Allocations of n > 0 bytes
\* are taken to succeed.
malloc_zeroed(n, malloc0_null) ==
    [null |-> (n = 0 /\ malloc0_null), size |-> n, bits |-> {}, oob |-> {}]

\* set_bmap on buffer bm: [ret, bm]
set_bmap(bm, size_blocks, idx, value) ==
    IF bm.null THEN [ret |-> -1, bm |-> bm]
    ELSE LET array_idx == idx \div BITS_PER_BYTE
             bit_off   == idx % BITS_PER_BYTE
             bit       == array_idx * BITS_PER_BYTE + bit_off
         IN  IF array_idx > size_blocks * HUST_BLOCKSIZE
             THEN [ret |-> -1, bm |-> bm]
             ELSE IF array_idx >= bm.size
             THEN \* bmap[array_idx] lies outside the allocation
                  [ret |-> 0, bm |-> [bm EXCEPT !.oob = @ \cup {array_idx}]]
             ELSE [ret |-> 0,
                   bm  |-> [bm EXCEPT !.bits = IF value # 0 THEN @ \cup {bit}
                                                ELSE @ \ {bit}]]

\* set_imap: imap[0] |= 0x3
set_imap(im) ==
    IF im.null \/ im.size = 0
    THEN [im EXCEPT !.oob = @ \cup {0}]
    ELSE [im EXCEPT !.bits = @ \cup {0, 1}]

\* the marking loop without the root directory's block
MarkCount_NoRootDir(data_block_number) == data_block_number

\* the number of iterations of init_disk's marking loop
MarkCount(data_block_number) == data_block_number + 1

\* for (idx = lo; idx < hi; ++idx) if (set_bmap(idx, 1)) return -1;
\* The iterations run in index order and stop at the first failure; the range
\* is split in halves only to keep the evaluation shallow.
RECURSIVE MarkLoop(_, _, _, _)
MarkLoop(bm, size_blocks, lo, hi) ==
    IF lo >= hi THEN [ret |-> 0, bm |-> bm]
    ELSE IF hi = lo + 1 THEN set_bmap(bm, size_blocks, lo, 1)
    ELSE LET mid   == (lo + hi) \div 2
             first == MarkLoop(bm, size_blocks, lo, mid)
         IN  IF first.ret # 0 THEN first
             ELSE MarkLoop(first.bm, size_blocks, mid, hi)

\* x/d rounded up the way init_disk does it: x/d, plus 1 if x%d != 0
BitmapBlocks(count) ==
    (count \div (8 * HUST_BLOCKSIZE))
      + (IF count % (8 * HUST_BLOCKSIZE) # 0 THEN 1 ELSE 0)

InodeTableBlocks(inodes_count) ==
    inodes_count \div (HUST_BLOCKSIZE \div HUST_INODE_SIZE)

\* the data region starting at the inode table instead of after it
DataBlockNumber_NoTable(bsz, isz, itsz) == RESERVE_BLOCKS + bsz + isz

DataBlockNumber(bsz, isz, itsz) == RESERVE_BLOCKS + bsz + isz + itsz

\* free_blocks without the root directory's block taken off
FreeBlocks_NoRootDir(blocks_count, data_block_number) ==
    Sub64(U64(blocks_count), U64(data_block_number))

FreeBlocks(blocks_count, data_block_number) ==
    Sub64(Sub64(U64(blocks_count), U64(data_block_number)), U64(1))

\* the superblock and sizes init_disk computes from disk_size (lines 136-191)
Geometry(ds) ==
    LET bc   == Val(ds) \div HUST_BLOCKSIZE
        ic   == bc
        bsz  == BitmapBlocks(bc)
        isz  == BitmapBlocks(ic)
        itsz == InodeTableBlocks(ic)
        bb   == RESERVE_BLOCKS
        ib   == bb + bsz
        itb  == ib + isz
        dbn  == DataBlockNumber(bsz, isz, itsz)
    IN  [bmap_size |-> bsz, imap_size |-> isz, inode_table_size |-> itsz,
         sb |-> [version |-> 1, block_size |-> HUST_BLOCKSIZE,
                 inodes_count |-> ic, free_blocks |-> FreeBlocks(bc, dbn),
                 blocks_count |-> bc, bmap_block |-> bb, imap_block |-> ib,
                 inode_table_block |-> itb, data_block_number |-> dbn]]

(* ------------------------------ main ---------------------------------- *)
\* if (argc != 2) return -1;
main_args ==
    /\ pc = "main"
    /\ IF argc # 2
       THEN pc' = "done" /\ exit_status' = ExitStatus(-1)
       ELSE pc' = "open" /\ UNCHANGED exit_status
    /\ UNCHANGED <<argc, device, fd, off, writes, rets, faults, globals>>

\* fd = open(argv[1], O_RDWR); if (fd == -1) return -1;
main_open ==
    /\ pc = "open"
    /\ \E ok \in BOOLEAN :
         IF ok
         THEN fd' = 3 /\ pc' = "init_disk" /\ UNCHANGED exit_status
         ELSE fd' = -1 /\ pc' = "done" /\ exit_status' = ExitStatus(-1)
    /\ UNCHANGED <<argc, device, off, writes, rets, faults, globals>>

Ret(stage, r) == Append(rets, [stage |-> stage, ret |-> r])

\* init_disk(fd, argv[1]); its return value is not looked at
init_disk ==
    /\ pc = "init_disk"
    /\ \E stat_ok \in BOOLEAN, malloc0_null \in BOOLEAN, segv \in BOOLEAN :
         LET ds == ToU64(get_file_size(stat_ok)) IN
         IF ds = ToU64(-1)
         THEN /\ ~segv
              /\ disk_size' = ds
              /\ rets' = Ret("init_disk", -1)
              /\ pc' = "write_dummy"
              /\ UNCHANGED <<bmap_size, imap_size, inode_table_size, bmap, imap,
                             super_block, exit_status, fd>>
         ELSE LET g    == Geometry(ds)
                  bm0  == malloc_zeroed(g.bmap_size * HUST_BLOCKSIZE, malloc0_null)
                  im0  == malloc_zeroed(g.imap_size * HUST_BLOCKSIZE, malloc0_null)
                  loop == MarkLoop(bm0, g.bmap_size, 0,
                                   MarkCount(g.sb.data_block_number))
                  im1  == IF loop.ret = 0 THEN set_imap(im0) ELSE im0
                  wild == loop.bm.oob # {} \/ im1.oob # {}
              IN  /\ disk_size' = ds
                  /\ bmap_size' = g.bmap_size
                  /\ imap_size' = g.imap_size
                  /\ inode_table_size' = g.inode_table_size
                  /\ super_block' = g.sb
                  /\ bmap' = loop.bm
                  /\ imap' = im1
                  /\ segv => wild
                  /\ IF segv
                     THEN \* the out-of-bounds store faults: the process dies
                          /\ pc' = "done"
                          /\ exit_status' = SIGSEGV_STATUS
                          /\ fd' = -1
                          /\ UNCHANGED rets
                     ELSE /\ pc' = "write_dummy"
                          /\ rets' = Ret("init_disk", loop.ret)
                          /\ UNCHANGED <<exit_status, fd>>
    /\ UNCHANGED <<argc, device, off, writes, faults>>


(* ----------------------------- writers -------------------------------- *)
\* what one write(2) call does: all of it, part of it, or nothing (-1)
Outcomes == {"ok", "short", "err"}
Possible(len, o) == o = "short" => len > 1
Cost(o) == IF o = "ok" THEN 0 ELSE 1
WriteRet(len, o) ==
    CASE o = "ok"    -> len
      [] o = "short" -> len \div 2
      [] o = "err"   -> -1

\* write(fd, buf, len) at file position st.off: the call is logged with the
\* offset it started at, and the position advances by the bytes written
DoWrite(st, what, len, o) ==
    LET r == WriteRet(len, o)
    IN  [off    |-> IF r > 0 THEN st.off + r ELSE st.off,
         writes |-> Append(st.writes,
                           [what |-> what, off |-> st.off, len |-> len, ret |-> r]),
         ret    |-> r]

Here == [off |-> off, writes |-> writes]

\* the effect of a stage that made the calls in w and returns r to main
Returns(stage, w, r, cost) ==
    /\ off' = w.off
    /\ writes' = w.writes
    /\ rets' = Ret(stage, r)
    /\ faults' = faults + cost
    /\ UNCHANGED <<argc, device, fd, exit_status, globals>>

\* write_dummy(fd); its return value is not looked at
write_dummy ==
    /\ pc = "write_dummy"
    /\ \E o \in Outcomes :
         /\ Possible(HUST_BLOCKSIZE, o)
         /\ faults + Cost(o) <= MaxFaults
         /\ LET w == DoWrite(Here, "dummy", HUST_BLOCKSIZE, o)
            IN  Returns("write_dummy", w,
                        IF w.ret # HUST_BLOCKSIZE THEN -1 ELSE 0, Cost(o))
    /\ pc' = "write_sb"

\* write_sb(fd); its return value is not looked at
write_sb ==
    /\ pc = "write_sb"
    /\ \E o \in Outcomes :
         /\ Possible(SB_SIZE, o)
         /\ faults + Cost(o) <= MaxFaults
         /\ LET w == DoWrite(Here, "super_block", SB_SIZE, o)
            IN  Returns("write_sb", w,
                        IF w.ret # HUST_BLOCKSIZE THEN -1 ELSE 0, Cost(o))
    /\ pc' = "write_bmap"

\* write_bmap(fd); its return value is not looked at
write_bmap ==
    /\ pc = "write_bmap"
    /\ \E o \in Outcomes :
         /\ Possible(bmap_size * HUST_BLOCKSIZE, o)
         /\ faults + Cost(o) <= MaxFaults
         /\ LET w == DoWrite(Here, "bmap", bmap_size * HUST_BLOCKSIZE, o)
            IN  Returns("write_bmap", w,
                        IF w.ret # bmap_size * HUST_BLOCKSIZE THEN -1 ELSE 0,
                        Cost(o))
    /\ pc' = "write_imap"

\* write_imap(fd); its return value is not looked at
write_imap ==
    /\ pc = "write_imap"
    /\ \E o \in Outcomes :
         /\ Possible(imap_size * HUST_BLOCKSIZE, o)
         /\ faults + Cost(o) <= MaxFaults
         /\ LET w == DoWrite(Here, "imap", imap_size * HUST_BLOCKSIZE, o)
            IN  Returns("write_imap", w,
                        IF w.ret # imap_size * HUST_BLOCKSIZE THEN -1 ELSE 0,
                        Cost(o))
    /\ pc' = "write_itable"

\* lseek(fd, data_block_number*HUST_BLOCKSIZE, SEEK_SET); seeking a regular
\* file or block device to a non-negative offset does not fail
SeekRootDir(st) ==
    [st EXCEPT !.off = super_block.data_block_number * HUST_BLOCKSIZE]

\* write_itable: two inode records, the seek, three directory records
ITable(o1, o2, o3, o4, o5) ==
    LET w1 == DoWrite(Here, "root_inode", HUST_INODE_SIZE, o1)
        w2 == DoWrite(w1, "file_inode", HUST_INODE_SIZE, o2)
        sk == SeekRootDir([off |-> w2.off, writes |-> w2.writes])
        w3 == DoWrite(sk, "dir_cur", DIR_RECORD_SIZE, o3)
        w4 == DoWrite(w3, "dir_parent", DIR_RECORD_SIZE, o4)
        w5 == DoWrite(w4, "dir_file", DIR_RECORD_SIZE, o5)
    IN  IF w1.ret # HUST_INODE_SIZE
        THEN [off |-> w1.off, writes |-> w1.writes, ret |-> -1, used |-> 1]
        ELSE IF w2.ret # HUST_INODE_SIZE
        THEN [off |-> w2.off, writes |-> w2.writes, ret |-> -1, used |-> 2]
        ELSE [off |-> w5.off, writes |-> w5.writes,
              \* only the last write's result is compared
              ret |-> IF w5.ret # DIR_RECORD_SIZE THEN -1 ELSE 0, used |-> 5]

\* write_itable(fd); its return value is not looked at
write_itable ==
    /\ pc = "write_itable"
    /\ \E os \in [1..5 -> Outcomes] :
         LET r == ITable(os[1], os[2], os[3], os[4], os[5])
             cost == Cost(os[1]) + Cost(os[2]) + Cost(os[3]) + Cost(os[4])
                       + Cost(os[5])
         IN  /\ \A i \in 1..5 : i > r.used => os[i] = "ok"
             /\ faults + cost <= MaxFaults
             /\ Returns("write_itable", r, r.ret, cost)
    /\ pc' = "close"

\* ret = 1; ... close(fd); return ret;
main_ret == 1

main_close ==
    /\ pc = "close"
    /\ fd' = -1
    /\ exit_status' = ExitStatus(main_ret)
    /\ pc' = "done"
    /\ UNCHANGED <<argc, device, off, writes, rets, faults, globals>>

Next ==
    \/ main_args
    \/ main_open
    \/ init_disk
    \/ write_dummy
    \/ write_sb
    \/ write_bmap
    \/ write_imap
    \/ write_itable
    \/ main_close

Spec == Init /\ [][Next]_vars

(* ------------------------- reading the state -------------------------- *)
Ran(stage) == \E i \in 1..Len(rets) : rets[i].stage = stage
Returned(stage, r) ==
    \E i \in 1..Len(rets) : rets[i].stage = stage /\ rets[i].ret = r
SomeStageFailed == \E i \in 1..Len(rets) : rets[i].ret = -1

\* init_disk returned and had a device size to work from
GeometryDone == Ran("init_disk") /\ disk_size # ToU64(-1)
\* init_disk returned 0: the Bitmap Builder completed
BitmapsBuilt == Returned("init_disk", 0)

DataBlock == super_block.data_block_number
\* a device whose geometry leaves room for the root directory's data block
Fits(blocks) ==
    blocks >= Geometry(U64(blocks * HUST_BLOCKSIZE)).sb.data_block_number + 1
\* the least block count that fits
MinBlocks ==
    CHOOSE b \in 0..MaxBlocks : Fits(b) /\ \A c \in 0..(b - 1) : ~Fits(c)

Max(a, b) == IF a >= b THEN a ELSE b
CeilDiv(a, b) == (a + b - 1) \div b
SetBits(buf) == Cardinality(buf.bits)

(* ------------------------------- C1 ----------------------------------- *)
\* C1: once a stage of the format run has failed, no later stage runs and no
\* further write reaches the device (a failed stage is the last stage, a
\* short or failed write is the last write, and nothing is written after a
\* failed init_disk).
C1_AbortOnFirstFailure ==
    /\ \A i \in 1..Len(rets) : rets[i].ret = -1 => i = Len(rets)
    /\ \A i \in 1..Len(writes) : writes[i].ret # writes[i].len => i = Len(writes)
    /\ Returned("init_disk", -1) => writes = <<>>

(* ------------------------------- C2 ----------------------------------- *)
\* C2: when blocks_count < data_block_number + 1 the run fails before any
\* write, and free_blocks is never stored wrapped around.
C2_TooSmallFailsBeforeWrite ==
    (GeometryDone /\ super_block.blocks_count < DataBlock + 1) =>
        /\ Returned("init_disk", -1)
        /\ writes = <<>>
        /\ IsSmall(super_block.free_blocks)

(* ------------------------------- C3 ----------------------------------- *)
\* C3: after init_disk completes on a device of at least the minimum size,
\* the block bitmap has exactly the bits 0..data_block_number set
\* (data_block_number + 1 of them) and the inode bitmap exactly bits 0 and 1.
C3_BitmapsMarkReserved ==
    (BitmapsBuilt /\ super_block.blocks_count >= MinBlocks) =>
        /\ bmap.bits = 0..DataBlock
        /\ SetBits(bmap) = DataBlock + 1
        /\ imap.bits = {0, 1}
        /\ SetBits(imap) = 2

C3_Witness ==
    /\ BitmapsBuilt
    /\ super_block.blocks_count >= MinBlocks
    /\ super_block.blocks_count = 100
    /\ 10 \in bmap.bits

(* ------------------------------- C4 ----------------------------------- *)
\* C4: set_bmap fails for every idx at or beyond the buffer's bit capacity
\* (so a completed marking loop stayed below it) and no byte at or beyond
\* offset bmap_size*block_size of the buffer is ever accessed.
C4_SetBmapWithinCapacity ==
    /\ bmap.oob = {}
    /\ BitmapsBuilt => MarkCount(DataBlock) <= bmap.size * BITS_PER_BYTE

(* ------------------------------- C5 ----------------------------------- *)
\* C5: for every device size, bmap_size = max(1, ceil(blocks_count/(8*bs)))
\* and imap_size = max(1, ceil(inodes_count/(8*bs))), inodes_count =
\* blocks_count = device_size div bs, and neither bitmap size is 0.
C5_BitmapSizesAtLeastOne ==
    GeometryDone =>
        /\ super_block.blocks_count = device \div HUST_BLOCKSIZE
        /\ super_block.inodes_count = super_block.blocks_count
        /\ bmap_size = Max(1, CeilDiv(super_block.blocks_count, 8 * HUST_BLOCKSIZE))
        /\ imap_size = Max(1, CeilDiv(super_block.inodes_count, 8 * HUST_BLOCKSIZE))
        /\ bmap_size # 0
        /\ imap_size # 0

(* ------------------------------- C6 ----------------------------------- *)
\* C6: after the geometry is computed the regions are contiguous:
\* bmap_block = 2, imap_block = bmap_block + bmap_size, inode_table_block =
\* imap_block + imap_size, data_block_number = inode_table_block +
\* inode_table_size = 2 + bmap_size + imap_size + floor(inodes_count /
\* (block_size div inode size)); a 409600-byte device gives 100 blocks,
\* sizes 1, 1, 6, data_block_number 10 and free_blocks 89.
C6_LayoutContiguous ==
    GeometryDone =>
        /\ super_block.bmap_block = 2
        /\ super_block.imap_block = super_block.bmap_block + bmap_size
        /\ super_block.inode_table_block = super_block.imap_block + imap_size
        /\ DataBlock = super_block.inode_table_block + inode_table_size
        /\ DataBlock = 2 + bmap_size + imap_size
                         + (super_block.inodes_count \div (4096 \div 264))
        /\ device = 409600 =>
             /\ super_block.blocks_count = 100
             /\ bmap_size = 1
             /\ imap_size = 1
             /\ inode_table_size = 6
             /\ DataBlock = 10
             /\ super_block.free_blocks = <<89, 0, 0, 0>>

C6_Witness ==
    /\ GeometryDone
    /\ device = 409600
    /\ DataBlock = 10
    /\ pc = "write_dummy"

(* ------------------------------- C7 ----------------------------------- *)
AllWritesSucceeded ==
    /\ pc = "done"
    /\ Ran("write_itable")
    /\ \A i \in 1..Len(writes) : writes[i].ret = writes[i].len

WriteOrder ==
    <<"dummy", "super_block", "bmap", "imap", "root_inode", "file_inode",
      "dir_cur", "dir_parent", "dir_file">>

WritesFollowLayout ==
    /\ Len(writes) = 9
    /\ \A i \in 1..9 : writes[i].what = WriteOrder[i]
    /\ writes[1].off = 0
    /\ writes[2].off = 1 * HUST_BLOCKSIZE
    /\ writes[3].off = super_block.bmap_block * HUST_BLOCKSIZE
    /\ writes[4].off = super_block.imap_block * HUST_BLOCKSIZE
    /\ writes[5].off = super_block.inode_table_block * HUST_BLOCKSIZE
    /\ writes[6].off = super_block.inode_table_block * HUST_BLOCKSIZE
                         + 1 * HUST_INODE_SIZE
    /\ writes[7].off = DataBlock * HUST_BLOCKSIZE
    /\ writes[8].off = writes[7].off + writes[7].len
    /\ writes[9].off = writes[8].off + writes[8].len

\* C7: in every run in which all writes succeed, the nine writes occur in
\* order and each region starts at block_size times its recorded block index.
C7_WritesFollowLayout == AllWritesSucceeded => WritesFollowLayout

\* the same, for the runs in which init_disk could size the device
WritesFollowLayoutWhenSized ==
    (AllWritesSucceeded /\ GeometryDone) => WritesFollowLayout

(* ------------------------------- C8 ----------------------------------- *)
\* C8: for a device of a whole number of blocks, at least the minimum,
\* free_blocks is not negative (not wrapped), equals blocks_count -
\* data_block_number - 1, and equals the number of block indices below
\* blocks_count whose bit is clear in the block bitmap.
C8_FreeBlocksCountsClearBits ==
    (BitmapsBuilt /\ device % HUST_BLOCKSIZE = 0
                  /\ super_block.blocks_count >= MinBlocks) =>
        /\ IsSmall(super_block.free_blocks)
        /\ Val(super_block.free_blocks) = super_block.blocks_count - DataBlock - 1
        /\ Val(super_block.free_blocks) =
             Cardinality({b \in 0..(super_block.blocks_count - 1) : b \notin bmap.bits})

C8_Witness ==
    /\ BitmapsBuilt
    /\ device = MinBlocks * HUST_BLOCKSIZE
    /\ super_block.free_blocks = <<0, 0, 0, 0>>
    /\ SetBits(bmap) = super_block.blocks_count

(* ------------------------------- C9 ----------------------------------- *)
\* C9: the inode table's blocks hold all inodes_count records at
\* block_size div inode size records per block; the 100-block disk's 6 table
\* blocks hold all 100 inodes.
C9_InodeTableHoldsAllInodes ==
    GeometryDone =>
        inode_table_size * (HUST_BLOCKSIZE \div HUST_INODE_SIZE)
            >= super_block.inodes_count

(* ------------------------------- C10 ---------------------------------- *)
\* some stage of a run with the right argument count failed: the open, or a
\* stage that returned -1, or a stage the process died in
RunFailed == SomeStageFailed \/ ~Ran("write_itable")

\* C10: with the right argument count the exit status is non-zero iff a stage
\* failed and 0 when all succeeded; with any other count it is non-zero and
\* nothing was written.
C10_ExitStatusTellsOutcome ==
    pc = "done" =>
        IF argc = 2
        THEN /\ exit_status # 0 <=> RunFailed
             /\ ~RunFailed => exit_status = 0
        ELSE exit_status # 0 /\ writes = <<>>

=============================================================================
